---- MODULE Spec2Model ----
(***************************************************************************)
(* Bitrix24 webhook ingestion pipeline (src/backend/api/v1/webhook.py):    *)
(* authenticate the event against a workflow (tenant), fetch the lead or   *)
(* deal from the remote CRM and reconcile the local record and its child   *)
(* field records in the workflow's own database.                           *)
(***************************************************************************)
EXTENDS Integers, Sequences, FiniteSets, TLC

(***************************************************************************)
(* Python values.  Every value is a record of the same shape so that       *)
(* values of different Python types can be compared: None, str, int and    *)
(* dict (an insertion-ordered sequence of <<key, value>> pairs).           *)
(***************************************************************************)
None == [t |-> "null", s |-> "", n |-> 0, d |-> <<>>]

Str(x) == [t |-> "str", s |-> x, n |-> 0, d |-> <<>>]

Num(k) == [t |-> "int", s |-> "", n |-> k, d |-> <<>>]

Dict(items) == [t |-> "dict", s |-> "", n |-> 0, d |-> items]

IsDict(v) == v.t = "dict"

\* `key in d`
Has(v, k) == \E i \in 1..Len(v.d) : v.d[i][1] = k

\* d[key], for a key that is there
Get(v, k) == v.d[CHOOSE i \in 1..Len(v.d) : v.d[i][1] = k][2]

\* d.get(key, default)
DictGet(v, k, default) == IF Has(v, k) THEN Get(v, k) ELSE default

\* bool(v): None, "", 0 and {} are falsy
Truthy(v) ==
    CASE v.t = "null" -> FALSE
      [] v.t = "str"  -> v.s # ""
      [] v.t = "int"  -> v.n # 0
      [] OTHER        -> Len(v.d) > 0

Digits == <<"0", "1", "2", "3", "4", "5", "6", "7", "8", "9">>

RECURSIVE NatToStr(_)
NatToStr(k) == IF k < 10 THEN Digits[k + 1]
               ELSE NatToStr(k \div 10) \o Digits[(k % 10) + 1]

\* str(v).  The repr of a dict is not needed digit by digit: it is some
\* text in braces, never a number.
PyStr(v) ==
    CASE v.t = "null" -> "None"
      [] v.t = "str"  -> v.s
      [] v.t = "int"  -> IF v.n < 0 THEN "-" \o NatToStr(-v.n) ELSE NatToStr(v.n)
      [] OTHER        -> "{}"

\* s.strip(): leading and trailing blanks removed
RECURSIVE Strip(_)
Strip(s) ==
    IF Len(s) = 0 THEN s
    ELSE IF Head(s) = " " THEN Strip(Tail(s))
    ELSE IF SubSeq(s, Len(s), Len(s)) = " " THEN Strip(SubSeq(s, 1, Len(s) - 1))
    ELSE s

\* `frag in s` on strings
Contains(s, frag) ==
    \E i \in 1..(Len(s) - Len(frag) + 1) : SubSeq(s, i, i + Len(frag) - 1) = frag

IsDigit(c) == \E i \in 1..10 : Digits[i] = c

\* int(s) succeeds: a non-empty run of digits, blanks around it allowed
IntParses(s) ==
    LET b == Strip(s)
    IN  /\ Len(b) > 0
        /\ \A i \in 1..Len(b) : IsDigit(SubSeq(b, i, i))

\* int(v) raises for None, a dict and a non-numeric string
IntOk(v) ==
    CASE v.t = "int" -> TRUE
      [] v.t = "str" -> IntParses(v.s)
      [] OTHER       -> FALSE

(***************************************************************************)
(* Decoding a form body (parse_nested_key and the loop that folds it over  *)
(* the pairs).                                                             *)
(***************************************************************************)
\* what an operation that raised TypeError leaves in place of its result
TypeError == [t |-> "error", s |-> "TypeError", n |-> 0, d |-> <<>>]

\* d[k] = x on a dict: the value is replaced where the key is, or the pair
\* is added at the end
DictSet(v, k, x) ==
    IF Has(v, k)
    THEN Dict([i \in 1..Len(v.d) |-> IF v.d[i][1] = k THEN <<k, x>> ELSE v.d[i]])
    ELSE Dict(Append(v.d, <<k, x>>))

\* result[k] = x: item assignment raises on a str
SetItem(result, k, x) == IF IsDict(result) THEN DictSet(result, k, x) ELSE TypeError

StartsWith(s, c) == Len(s) > 0 /\ SubSeq(s, 1, 1) = c

EndsWith(s, c) == Len(s) > 0 /\ SubSeq(s, Len(s), Len(s)) = c

\* s.find(c) counted from 1: the first position of c in s, 0 when none
Find(s, c) ==
    LET hits == {i \in 1..Len(s) : SubSeq(s, i, i) = c}
    IN  IF hits = {} THEN 0 ELSE CHOOSE i \in hits : \A j \in hits : i <= j

\* s.rstrip(c)
RECURSIVE RStrip(_, _)
RStrip(s, c) == IF EndsWith(s, c) THEN RStrip(SubSeq(s, 1, Len(s) - 1), c) ELSE s

\* a malformed key stored as it is written
MalformedKeyKept(key) == key

\* the name a malformed key such as "ID]" is stored under
MalformedKey(key) == RStrip(key, "]")

RECURSIVE parse_nested_key(_, _, _)
\* the result dict after parse_nested_key(key, value, result), or TypeError
parse_nested_key(key0, value, result) ==
    LET key == IF StartsWith(key0, "[") THEN SubSeq(key0, 2, Len(key0)) ELSE key0
        p == Find(key, "[")
        outer_key == SubSeq(key, 1, p - 1)
        rest == SubSeq(key, p + 1, Len(key))
        bracket_pos == Find(rest, "]")
        inner_key == SubSeq(rest, 1, bracket_pos - 1)
        remaining == SubSeq(rest, bracket_pos + 1, Len(rest))
    IN  IF EndsWith(key, "]") /\ ~Contains(key, "[")
        THEN SetItem(result, MalformedKey(key), value)
        ELSE IF ~Contains(key, "[") \/ ~Contains(key, "]")
        THEN SetItem(result, key, value)
        ELSE IF outer_key = ""
        THEN IF bracket_pos = 0 THEN SetItem(result, key, value)
             ELSE IF StartsWith(remaining, "[")
             THEN parse_nested_key(remaining, value, result)
             ELSE SetItem(result, inner_key, value)
        ELSE IF bracket_pos = 0 THEN SetItem(result, key, value)
        ELSE IF ~IsDict(result) THEN TypeError
        ELSE LET r1 == IF Has(result, outer_key) THEN result
                       ELSE DictSet(result, outer_key, Dict(<<>>))
                 sub == IF StartsWith(remaining, "[")
                        THEN parse_nested_key(remaining, value, Get(r1, outer_key))
                        ELSE SetItem(Get(r1, outer_key), inner_key, value)
             IN  IF sub = TypeError THEN TypeError ELSE DictSet(r1, outer_key, sub)

\* raw_data = dict(form_data): one entry per key, holding its last value
RECURSIVE RawData(_, _)
RawData(pairs, i) ==
    IF i = 0 THEN Dict(<<>>)
    ELSE DictSet(RawData(pairs, i - 1), pairs[i][1], Str(pairs[i][2]))

\* the loop `for key, value in raw_data.items(): parse_nested_key(...)`,
\* up to item i
RECURSIVE ParseItems(_, _)
ParseItems(items, i) ==
    IF i = 0 THEN Dict(<<>>)
    ELSE LET parsed_data == ParseItems(items, i - 1)
         IN  IF parsed_data = TypeError THEN TypeError
             ELSE parse_nested_key(items[i][1], items[i][2], parsed_data)

\* the tree decoded from the pairs of a form body, or TypeError
Decode(pairs) ==
    LET raw_data == RawData(pairs, Len(pairs))
    IN  ParseItems(raw_data.d, Len(raw_data.d))

(***************************************************************************)
(* Event field extraction.                                                 *)
(***************************************************************************)
extract_auth_field(data, field_name) ==
    IF Has(data, "auth") /\ IsDict(Get(data, "auth"))
    THEN DictGet(Get(data, "auth"), field_name, None)
    ELSE LET flat_key == "auth[" \o field_name \o "]"
         IN  IF Has(data, flat_key) THEN Get(data, flat_key) ELSE None

RECURSIVE extract_id_from_nested_dict(_)
RECURSIVE ScanValues(_, _)
\* the loop over data.values() of extract_id_from_nested_dict, from item i on
ScanValues(items, i) ==
    IF i > Len(items) THEN None
    ELSE LET value == items[i][2]
         IN  IF ~IsDict(value) THEN ScanValues(items, i + 1)
             ELSE IF Has(value, "ID") THEN Str(PyStr(Get(value, "ID")))
             ELSE IF Has(value, "ID]") THEN Str(PyStr(Get(value, "ID]")))
             ELSE LET nested_id == extract_id_from_nested_dict(value)
                  IN  IF Truthy(nested_id) THEN nested_id
                      ELSE ScanValues(items, i + 1)

extract_id_from_nested_dict(data) ==
    IF ~IsDict(data) THEN None
    ELSE IF Has(data, "ID") THEN Str(PyStr(Get(data, "ID")))
    ELSE IF Has(data, "ID]") THEN Str(PyStr(Get(data, "ID]")))
    ELSE IF /\ Has(data, "FIELDS") /\ IsDict(Get(data, "FIELDS"))
            /\ Has(Get(data, "FIELDS"), "ID")
         THEN Str(PyStr(Get(Get(data, "FIELDS"), "ID")))
    ELSE IF /\ Has(data, "FIELDS") /\ IsDict(Get(data, "FIELDS"))
            /\ Has(Get(data, "FIELDS"), "ID]")
         THEN Str(PyStr(Get(Get(data, "FIELDS"), "ID]")))
    ELSE ScanValues(data.d, 1)

\* the first value of event_data that is a dict holding "ID", from item i on
RECURSIVE FirstDictWithID(_, _)
FirstDictWithID(items, i) ==
    IF i > Len(items) THEN Dict(<<>>)
    ELSE IF IsDict(items[i][2]) /\ Has(items[i][2], "ID") THEN items[i][2]
    ELSE FirstDictWithID(items, i + 1)

\* the `fields` subtree the handler derives from event_data
DeriveFields(event_data) ==
    IF ~IsDict(event_data) THEN Dict(<<>>)
    ELSE LET fields == DictGet(event_data, "FIELDS", Dict(<<>>))
         IN  IF Truthy(fields) THEN fields
             ELSE LET found == FirstDictWithID(event_data.d, 1)
                  IN  IF Truthy(found) THEN found
                      ELSE IF Truthy(event_data) THEN event_data
                      ELSE fields

\* bitrix_lead_id = extract_id(event_data) or extract_id(fields)
EventEntityId(data) ==
    LET event_data == DictGet(data, "data", Dict(<<>>))
        first == extract_id_from_nested_dict(event_data)
    IN  IF Truthy(first) THEN first
        ELSE extract_id_from_nested_dict(DeriveFields(event_data))

\* `"ONCRM..." in event` raises TypeError when event is None or a number
EventRaises(event) == event.t \in {"null", "int"}

\* which branch of the handler an event name takes
EventKind(event) ==
    IF Contains(event.s, "ONCRMLEADUPDATE") \/ Contains(event.s, "ONCRMLEADADD")
    THEN "lead"
    ELSE IF Contains(event.s, "ONCRMDEALUPDATE") \/ Contains(event.s, "ONCRMDEALADD")
    THEN "deal"
    ELSE "unknown"

(***************************************************************************)
(* The inputs: decoded webhook bodies, and what the remote CRM answers.    *)
(***************************************************************************)
\* a key the sender left out
Absent == [t |-> "absent", s |-> "", n |-> 0, d |-> <<>>]

Item(k, v) == IF v.t = "absent" THEN <<>> ELSE << <<k, v>> >>

\* a decoded body: auth data nested under "auth", as flat "auth[...]" keys,
\* the domain flat beside a nested token ("mixed"), the domain in both
\* forms ("both"), or missing
Body(shape, domain, token, event, data) ==
    Dict((CASE shape = "nested" ->
                 Item("auth", Dict(Item("domain", domain)
                                   \o Item("application_token", token)))
            [] shape = "flat" ->
                 Item("auth[domain]", domain) \o Item("auth[application_token]", token)
            [] shape = "mixed" ->
                 Item("auth", Dict(Item("application_token", token)))
                 \o Item("auth[domain]", domain)
            [] shape = "both" ->
                 Item("auth", Dict(Item("domain", domain)
                                   \o Item("application_token", token)))
                 \o Item("auth[domain]", Str("b.b24"))
            [] OTHER -> <<>>)
         \o Item("event", event) \o Item("data", data))

DomainInputs == {Absent, Str(""), Str("a.b24"), Str("b.b24"), Str("a.b2")}

TokenInputs == {Absent, Str(""), Str("tok"), Str("to")}

EventInputs == {Absent, None, Str("ONCRMLEADUPDATE"), Str("ONCRMLEADADD"),
                Str("ONCRMDEALUPDATE"), Str("ONCRMDEALADD"), Str("ONCRMCONTACTADD")}

FieldsWithId(id) == Dict(<< <<"FIELDS", Dict(<< <<"ID", Str(id)>> >>)>> >>)

DataInputs == {Absent, Str("junk"),
               FieldsWithId("5"), FieldsWithId("7"), FieldsWithId("8"),
               FieldsWithId("x5"), FieldsWithId(""),
               Dict(<< <<"FIELDS", Dict(<< <<"TITLE", Str("t")>> >>)>> >>),
               Dict(<< <<"ID]", Str("5")>> >>)}

\* payload trees with ID keys at several places, levels and orders
IdTrees ==
    {Dict(<< <<"ID", Str("i1")>>, <<"ID]", Str("i2")>>,
             <<"FIELDS", Dict(<< <<"ID", Str("i3")>> >>)>> >>),
     Dict(<< <<"ID]", Str("i2")>>, <<"FIELDS", Dict(<< <<"ID", Str("i3")>> >>)>>,
             <<"X", Dict(<< <<"ID", Str("i4")>> >>)>> >>),
     Dict(<< <<"X", Dict(<< <<"ID", Str("i4")>> >>)>>,
             <<"FIELDS", Dict(<< <<"ID]", Str("i3")>> >>)>> >>),
     Dict(<< <<"X", Dict(<< <<"Y", Dict(<< <<"ID", Str("i6")>> >>)>> >>)>>,
             <<"Z", Dict(<< <<"ID", Str("i4")>> >>)>> >>),
     Dict(<< <<"X", Dict(<< <<"ID", Str("42")>> >>)>> >>),
     Dict(<<>>),
     Dict(<< <<"A", Dict(<< <<"B", Dict(<< <<"ID", Str("")>> >>)>> >>)>> >>),
     Dict(<< <<"A", Dict(<< <<"B", Dict(<< <<"ID", Str("")>> >>)>> >>)>>,
             <<"C", Dict(<< <<"ID", Str("i5")>> >>)>> >>),
     Dict(<< <<"A", Dict(<< <<"ID", Str("")>> >>)>>,
             <<"C", Dict(<< <<"ID", Str("i5")>> >>)>> >>),
     Dict(<< <<"X", Str("junk")>>,
             <<"Y", Dict(<< <<"Z", Dict(<< <<"W", Dict(<< <<"ID]", Str("i7")>> >>)>> >>)>> >>)>> >>),
     Dict(<< <<"ID", None>> >>)}

\* every way of sending the auth data, with a lead event for record 5;
\* with auth data each workflow accepts, every event name for record 5 and
\* every payload for a lead and a deal event; and auth data in two forms
Requests ==
    {Body(sh, dm, tk, Str("ONCRMLEADUPDATE"), FieldsWithId("5")) :
        sh \in {"nested", "flat", "none"}, dm \in DomainInputs, tk \in TokenInputs}
    \cup
    {Body("nested", dm, Str("tok"), ev, FieldsWithId("5")) :
        dm \in {Str("a.b24"), Str("b.b24")}, ev \in EventInputs}
    \cup
    {Body("nested", dm, Str("tok"), ev, dat) :
        dm \in {Str("a.b24"), Str("b.b24")},
        ev \in {Str("ONCRMLEADUPDATE"), Str("ONCRMDEALADD")}, dat \in DataInputs}
    \cup
    {Body(sh, Str("a.b24"), Str("tok"), Str("ONCRMLEADUPDATE"), FieldsWithId("5")) :
        sh \in {"mixed", "both"}}
    \cup
    {Body("nested", Str("a.b24"), Str("tok"), Str("ONCRMLEADUPDATE"), tree) :
        tree \in IdTrees}

\* the key a sender writes for the nested path outer -> k1 -> ... -> kn:
\* outer[k1]...[kn]
RECURSIVE BracketKey(_, _)
BracketKey(path, i) ==
    IF i = 1 THEN path[1] ELSE BracketKey(path, i - 1) \o "[" \o path[i] \o "]"

KeyOf(path) == BracketKey(path, Len(path))

\* nested paths of one, two and three bracket segments
KeyPaths ==
    {<<"auth", "domain">>, <<"auth", "application_token">>, <<"data", "ID">>, <<"data", "FIELDS", "ID">>,
     <<"data", "A", "ID">>, <<"data", "FIELDS", "A", "B">>}

\* keys without brackets, and keys whose brackets do not pair
OtherKeys == {"data", "ID", "ID]", "ID]]", "data[ID", "[ID]", "a]b"}

FormKeys == {KeyOf(path) : path \in KeyPaths} \cup OtherKeys

\* an event as Bitrix24 posts it, as form fields
EventForm(domain, token, event, id) ==
    << <<"event", event>>, <<"data[FIELDS][ID]", id>>,
       <<"auth[domain]", domain>>, <<"auth[application_token]", token>> >>

\* the keys an event may carry its entity id under
IdKeyShapes == {"data[FIELDS][ID]", "data[ID]", "ID]", "data[FIELDS]ID]"}

\* a lead event of a.b24 as Bitrix24 posts it, the id under the given key
IdForm(key, id) ==
    << <<"event", "ONCRMLEADUPDATE">>, <<key, id>>,
       <<"auth[domain]", "a.b24">>, <<"auth[application_token]", "tok">> >>

\* the form bodies: every key alone, every two keys one after the other,
\* and whole events
FormInputs ==
    {<< <<k, v>> >> : k \in FormKeys, v \in {"7", "9"}}
    \cup
    {<< <<k1, "1">>, <<k2, "2">> >> : k1 \in FormKeys, k2 \in FormKeys}
    \cup
    {EventForm("a.b24", "tok", "ONCRMLEADUPDATE", "5"),
     EventForm("b.b24", "tok", "ONCRMDEALADD", "5")}
    \cup
    {IdForm(k, "6") : k \in IdKeyShapes \ {"data[FIELDS][ID]"}}

StatusKey(kind) == IF kind = "lead" THEN "STATUS_ID" ELSE "STAGE_ID"

SemanticKey(kind) == IF kind = "lead" THEN "STATUS_SEMANTIC_ID" ELSE "STAGE_SEMANTIC_ID"

Entity(kind, st, sem, asg, uf1, uf2) ==
    Dict(Item(StatusKey(kind), st) \o Item(SemanticKey(kind), sem)
         \o Item("ASSIGNED_BY_ID", asg) \o Item("UF_1", uf1) \o Item("UF_2", uf2))

\* what crm.lead.get / crm.deal.get may answer: every status with every
\* semantic status, every combination of assignee and custom fields, and an
\* assignee id that is no number
Entities(kind) ==
    {Entity(kind, st, sem, Absent, Num(7), Str("y")) :
        st \in {Absent, Str(""), Str("NEW"), Str("WON")},
        sem \in {Absent, Str(""), Str("S")}}
    \cup
    {Entity(kind, Str("NEW"), Absent, asg, uf1, uf2) :
        asg \in {Absent, Str("9")},
        uf1 \in {Absent, Str(""), Num(7)},
        uf2 \in {Absent, Str("y")}}
    \cup
    {Entity(kind, Str("NEW"), Absent, Str("x9"), Absent, Absent),
     Entity(kind, Str("WON"), Str("S"), Str("9"), Num(7), Str("y"))}

\* what user.get may answer
Users ==
    {None,
     Dict(<< <<"NAME", Str(" Ann ")>>, <<"LAST_NAME", Str("Lee")>> >>),
     Dict(<< <<"NAME", Str("Ann")>> >>),
     Dict(<< <<"NAME", Str("  ")>>, <<"LAST_NAME", Str("")>> >>)}

(***************************************************************************)
(* State.                                                                  *)
(***************************************************************************)
\* requests one handler slot takes in one behaviour
MaxEvents == 1

Handlers == {1, 2}

WorkflowIds == {1, 2}

(***************************************************************************)
(* Schema migrations (utils/migrate_db.py).  A database is the set of its  *)
(* tables, a table the set of its columns; the migrations are run with     *)
(* sqlite3, where a DDL statement outside a transaction is kept at once.   *)
(***************************************************************************)
Table(cols) == [exists |-> TRUE, cols |-> cols]

NoTable == [exists |-> FALSE, cols |-> {}]

\* PRAGMA table_info(t): the column names, none for a table that is not there
TableInfo(t) == t.cols

WorkflowsBase == {"id", "name", "user_id", "created_at"}

OldColumns == {"bitrix24_portal_url", "bitrix24_webhook_token"}

SettingsColumns == {"entity_type", "deal_category_id", "deal_stage_id", "lead_status_id"}

\* the columns of CREATE TABLE workflows_new
WorkflowsNewColumns == WorkflowsBase \cup {"bitrix24_webhook_url"}

MappingsBase ==
    {"id", "workflow_id", "field_name", "bitrix24_field_id", "bitrix24_field_name",
     "entity_type", "created_at"}

\* the columns of CREATE TABLE workflow_field_mappings
MappingsCreatedFull == MappingsBase \cup {"display_name", "update_on_event"}

MappingsCreated == MappingsBase \cup {"display_name"}

LeadsBase == {"id", "bitrix24_lead_id", "status"}

\* a workflow's directory: its database file, and the leads table in it
LeadsDb(file, leads) == [file |-> file, leads |-> leads]

\* the main database file and the workflows directory
Databases(file, wf, wfnew, wfm, uwa, null_portal, dir, dbs) ==
    [file |-> file, workflows |-> wf, workflows_new |-> wfnew,
     workflow_field_mappings |-> wfm, user_workflow_access |-> uwa,
     null_portal |-> null_portal, dir |-> dir, dbs |-> dbs]

\* what running a migration gives: the databases after it, and whether it
\* raised
Ran(db, raised) == [db |-> db, raised |-> raised]

AddColumns(t, cols) == [t EXCEPT !.cols = @ \cup cols]

migrate_workflow_settings(db) ==
    LET columns == TableInfo(db.workflows)
        columns_to_add == SettingsColumns \ columns
    IN  IF ~db.file THEN Ran(db, FALSE)
        ELSE IF columns_to_add = {} THEN Ran(db, FALSE)
        ELSE IF ~db.workflows.exists THEN Ran(db, TRUE)
        ELSE Ran([db EXCEPT !.workflows = AddColumns(@, columns_to_add)], FALSE)

migrate_workflows_table(db) ==
    LET columns == TableInfo(db.workflows)
        has_old_columns == OldColumns \subseteq columns
        created == [db EXCEPT !.workflows_new = Table(WorkflowsNewColumns)]
    IN  IF ~db.file THEN Ran(db, FALSE)
        ELSE IF "bitrix24_webhook_url" \in columns THEN Ran(db, FALSE)
        ELSE IF has_old_columns
        THEN IF db.workflows_new.exists THEN Ran(db, TRUE)
             ELSE IF db.null_portal THEN Ran(created, TRUE)
             ELSE Ran([created EXCEPT !.workflows = created.workflows_new,
                                      !.workflows_new = NoTable], FALSE)
        ELSE IF db.workflows.exists THEN Ran([db EXCEPT !.workflows = NoTable], FALSE)
        ELSE Ran(db, FALSE)

migrate_workflow_app_token(db) ==
    LET columns == TableInfo(db.workflows)
        columns_to_add == {"app_token", "bitrix24_domain"} \ columns
        added == [db EXCEPT !.workflows = AddColumns(@, columns_to_add)]
    IN  IF ~db.file THEN Ran(db, FALSE)
        ELSE IF columns_to_add = {} THEN Ran(db, FALSE)
        ELSE IF ~db.workflows.exists THEN Ran(db, TRUE)
        ELSE IF "bitrix24_webhook_url" \notin columns THEN Ran(added, TRUE)
        ELSE Ran(added, FALSE)

migrate_workflow_api_token(db) ==
    LET columns == TableInfo(db.workflows)
    IN  IF ~db.file THEN Ran(db, FALSE)
        ELSE IF "api_token" \in columns THEN Ran(db, FALSE)
        ELSE IF ~db.workflows.exists THEN Ran(db, TRUE)
        ELSE Ran([db EXCEPT !.workflows = AddColumns(@, {"api_token"})], FALSE)

\* the table is created without update_on_event; a table that is there gets
\* display_name and update_on_event, each when `columns` does not hold it
migrate_workflow_field_mapping(db) ==
    LET table_exists == db.workflow_field_mappings.exists
        columns == TableInfo(db.workflow_field_mappings)
    IN  IF ~db.file THEN Ran(db, FALSE)
        ELSE IF ~table_exists
        THEN Ran([db EXCEPT !.workflow_field_mappings = Table(MappingsCreated)], FALSE)
        ELSE Ran([db EXCEPT !.workflow_field_mappings =
                     AddColumns(@, {"display_name", "update_on_event"} \ columns)], FALSE)

\* every workflow directory with a database file that has a leads table
migrate_lead_assigned_by_and_semantic(db) ==
    IF ~db.dir THEN Ran(db, FALSE)
    ELSE Ran([db EXCEPT !.dbs =
                 [w \in DOMAIN db.dbs |->
                     IF ~db.dbs[w].file \/ ~db.dbs[w].leads.exists THEN db.dbs[w]
                     ELSE [db.dbs[w] EXCEPT !.leads =
                              AddColumns(@, {"assigned_by_name", "status_semantic_id"}
                                                \ TableInfo(db.dbs[w].leads))]]],
             FALSE)

migrate_user_workflow_access(db) ==
    IF ~db.file THEN Ran(db, FALSE)
    ELSE IF ~db.user_workflow_access.exists
    THEN Ran([db EXCEPT !.user_workflow_access = Table({"user_id", "workflow_id"})], FALSE)
    ELSE Ran(db, FALSE)

Migrations ==
    {"migrate_workflows_table", "migrate_workflow_settings", "migrate_workflow_app_token",
     "migrate_workflow_api_token", "migrate_workflow_field_mapping",
     "migrate_lead_assigned_by_and_semantic", "migrate_user_workflow_access"}

\* the call of the migration function of that name
Migrate(fn, db) ==
    CASE fn = "migrate_workflows_table" -> migrate_workflows_table(db)
      [] fn = "migrate_workflow_settings" -> migrate_workflow_settings(db)
      [] fn = "migrate_workflow_app_token" -> migrate_workflow_app_token(db)
      [] fn = "migrate_workflow_api_token" -> migrate_workflow_api_token(db)
      [] fn = "migrate_workflow_field_mapping" -> migrate_workflow_field_mapping(db)
      [] fn = "migrate_lead_assigned_by_and_semantic" ->
             migrate_lead_assigned_by_and_semantic(db)
      [] fn = "migrate_user_workflow_access" -> migrate_user_workflow_access(db)

\* the workflows tables a deployment may have before the migrations
StartWorkflows ==
    {NoTable, Table(WorkflowsBase), Table(WorkflowsBase \cup OldColumns),
     Table(WorkflowsNewColumns),
     Table(WorkflowsNewColumns \cup {"entity_type"}),
     Table(WorkflowsNewColumns \cup {"app_token"}),
     Table(WorkflowsNewColumns \cup SettingsColumns
              \cup {"app_token", "bitrix24_domain", "api_token"})}

StartMappings ==
    {NoTable, Table(MappingsBase), Table(MappingsBase \cup {"display_name"}),
     Table(MappingsBase \cup {"update_on_event"}), Table(MappingsCreatedFull)}

StartLeadsDbs ==
    {[w \in WorkflowIds |-> IF w = 1 THEN d1 ELSE d2] :
        d1 \in {LeadsDb(FALSE, NoTable), LeadsDb(TRUE, NoTable),
                LeadsDb(TRUE, Table(LeadsBase)),
                LeadsDb(TRUE, Table(LeadsBase \cup {"assigned_by_name"}))},
        d2 \in {LeadsDb(FALSE, NoTable), LeadsDb(TRUE, Table(LeadsBase))}}

NoLeadsDbs == [w \in WorkflowIds |-> LeadsDb(FALSE, NoTable)]

\* the databases the migrations may be started on: no main database file,
\* or one with any of the tables above; a workflows table with the old
\* columns may hold a row without a portal url, and a workflows_new table
\* may be left from a run that raised
StartSchemas ==
    {Databases(FALSE, NoTable, NoTable, NoTable, NoTable, FALSE, dir,
               IF dir THEN dbs ELSE NoLeadsDbs) :
        dir \in BOOLEAN, dbs \in StartLeadsDbs}
    \cup
    {Databases(TRUE, wf, wfnew, wfm, uwa,
               null_portal /\ OldColumns \subseteq wf.cols, TRUE, dbs) :
        wf \in StartWorkflows,
        wfnew \in {NoTable, Table(WorkflowsNewColumns)},
        wfm \in StartMappings,
        uwa \in {NoTable, Table({"user_id", "workflow_id"})},
        null_portal \in BOOLEAN,
        dbs \in StartLeadsDbs}

\* the databases the webhook handler runs on
MigratedSchema ==
    Databases(TRUE,
              Table(WorkflowsNewColumns \cup SettingsColumns
                       \cup {"app_token", "bitrix24_domain", "api_token"}),
              NoTable, Table(MappingsCreatedFull), Table({"user_id", "workflow_id"}),
              FALSE, TRUE,
              [w \in WorkflowIds |->
                  LeadsDb(TRUE, Table(LeadsBase \cup {"assigned_by_name",
                                                        "status_semantic_id"}))])

\* migration runs in one behaviour
MaxRuns == 2

(***************************************************************************)
(* Authentication dependencies (api/v1/dependencies.py).                   *)
(***************************************************************************)
UserIds == {1, 2}

Roles == {"admin", "user", "Admin"}

User(id, role) == [id |-> id, role |-> role]

\* what the query for a user gives when no row matches, and what a
\* dependency has yielded before it returns
NoUser == [id |-> 0, role |-> ""]

\* the users table of the main database: for each id, its role or no row
UserTables == [UserIds -> Roles \cup {"-"}]

\* db.query(User).filter(User.id == user_id).first()
FirstUser(users, user_id) ==
    IF user_id \in DOMAIN users /\ users[user_id] # "-"
    THEN User(user_id, users[user_id]) ELSE NoUser

\* the values of the session cookie: the cookie is not sent, is empty, or
\* holds a session id
SessionIds == {None, Str(""), Str("s1"), Str("s2")}

SessionData(user_id) == Dict(<< <<"user_id", Num(user_id)>> >>)

\* what AuthService.get_session answers for a session id: nothing, an
\* empty record, or the data of a live session of a user, who may have been
\* deleted since
SessionResults == {None, Dict(<<>>)} \cup {SessionData(u) : u \in UserIds \cup {3}}

\* a session id that is None or absent, where the code rejects every falsy
\* one
HasCookieNotNone(session_id) == session_id # None

\* the negation of `not session_id`
HasCookie(session_id) == Truthy(session_id)

\* one resolution of the dependencies of an admin endpoint
NoCall ==
    [pc |-> "idle", session_id |-> None, session_data |-> None,
     users |-> [u \in UserIds |-> "-"], current_user |-> NoUser,
     admin_user |-> NoUser, status |-> 0, detail |-> ""]

Unauthorized(d, detail) == [d EXCEPT !.pc = "done", !.status = 401, !.detail = detail]

Forbidden(d, detail) == [d EXCEPT !.pc = "done", !.status = 403, !.detail = detail]

VARIABLES
    workflows,    \* main database: the workflows table, in row order
    mappings,     \* main database: the workflow_field_mappings table
    leads,        \* per workflow database: the leads table
    lead_fields,  \* per workflow database: the lead_fields table
    hs,           \* per request in flight: the handler's locals
    nEvents,      \* per handler slot: requests received so far
    schema,       \* the tables and columns of the databases
    schema0,      \* the tables and columns before the last migration run
    runs,         \* the migration functions run so far, in order
    dep           \* the dependencies of an admin endpoint being resolved

vars ==
    <<workflows, mappings, leads, lead_fields, hs, nEvents, schema, schema0, runs, dep>>

\* a handler's locals before a request arrives
Idle ==
    [pc |-> "idle", form |-> <<>>, data |-> None, domain |-> None, wf |-> 0, app_token |-> None,
     authed |-> FALSE, event |-> None, kind |-> "", event_id |-> None, bid |-> None, lead_data |-> None, lead_id |-> 0, loaded |-> None,
     user |-> None, user_raised |-> FALSE, assigned_by_name |-> None,
     resp |-> 0, outcome |-> "", calls |-> <<>>, raised |-> "",
     leads0 |-> <<>>, fields0 |-> <<>>]

Lead(id, bitrix_id, status, semantic, assigned) ==
    [id |-> id, bitrix24_lead_id |-> bitrix_id, status |-> status,
     status_semantic_id |-> semantic, assigned_by_name |-> assigned]

Mapping(wf, kind, remote, name, upd) ==
    [workflow_id |-> wf, entity_type |-> kind, bitrix24_field_id |-> remote,
     field_name |-> name, update_on_event |-> upd]

\* the leads tables as they are when the first event arrives: the records
\* were created elsewhere, one per remote id in each workflow's database
InitLeads ==
    [w \in WorkflowIds |->
        IF w = 1
        THEN << Lead(1, "5", Str("OLD"), Str("P"), Str("Bob")),
                Lead(2, "7", Str("OLD"), None, None) >>
        ELSE << Lead(1, "5", Str("OLD"), Str("P"), None) >>]

\* the tables when the first event arrives, and no request in flight
InitTables ==
    /\ workflows = << [id |-> 1, bitrix24_domain |-> "a.b24", app_token |-> Str("tok")],
                      [id |-> 2, bitrix24_domain |-> "b.b24", app_token |-> None] >>
    /\ mappings = << Mapping(1, "lead", "UF_1", "f1", TRUE),
                     Mapping(1, "lead", "UF_2", "f2", FALSE),
                     Mapping(1, "deal", "UF_2", "f3", TRUE),
                     Mapping(2, "lead", "UF_2", "g1", TRUE) >>
    /\ leads = InitLeads
    /\ lead_fields = [w \in WorkflowIds |->
                  IF w = 1
                  THEN << [lead_id |-> 1, field_name |-> "f1", field_value |-> "old"] >>
                  ELSE << >>]
    /\ hs = [h \in Handlers |-> Idle]
    /\ nEvents = [h \in Handlers |-> 0]

\* the handler runs on migrated databases; no migration and no admin
\* endpoint is running
Init ==
    /\ InitTables
    /\ schema = MigratedSchema
    /\ schema0 = MigratedSchema
    /\ runs = << >>
    /\ dep = NoCall

(***************************************************************************)
(* Authentication (handle_bitrix24_webhook, up to the event dispatch).     *)
(***************************************************************************)
\* a workflow lookup that falls back to the first workflow
FindWorkflowFallback(wfs, domain) ==
    LET hits == {i \in 1..Len(wfs) :
                    domain.t = "str" /\ wfs[i].bitrix24_domain = domain.s}
    IN  IF hits = {} THEN wfs[1].id
        ELSE wfs[CHOOSE i \in hits : \A j \in hits : i <= j].id

\* db.query(Workflow).filter(bitrix24_domain == domain).first(): the id of
\* the first row with exactly that domain, 0 when there is none
FindWorkflow(wfs, domain) ==
    LET hits == {i \in 1..Len(wfs) :
                    domain.t = "str" /\ wfs[i].bitrix24_domain = domain.s}
    IN  IF hits = {} THEN 0
        ELSE wfs[CHOOSE i \in hits : \A j \in hits : i <= j].id

WorkflowRow(wfs, id) == wfs[CHOOSE i \in 1..Len(wfs) : wfs[i].id = id]

\* a token check that lets a request without a token through
TokenAcceptedLenient(workflow_token, app_token) ==
    IF Truthy(workflow_token) /\ Truthy(app_token)
    THEN app_token = workflow_token
    ELSE TRUE

\* a token check that asks every workflow's requests for a token
TokenAcceptedStrict(workflow_token, app_token) ==
    /\ Truthy(app_token)
    /\ Truthy(workflow_token) => app_token = workflow_token

\* the token check: TRUE when the request may pass
TokenAccepted(workflow_token, app_token) ==
    IF Truthy(workflow_token)
    THEN IF ~Truthy(app_token) THEN FALSE
         ELSE IF app_token # workflow_token THEN FALSE
         ELSE TRUE
    ELSE TRUE

(***************************************************************************)
(* Reconciliation (the lead and the deal branch, which differ only in the  *)
(* keys read and the entity_type of the mappings).                         *)
(***************************************************************************)
\* a record lookup that falls back to the first record
FindLeadFallback(rows, bid) ==
    LET hits == {i \in 1..Len(rows) : rows[i].bitrix24_lead_id = PyStr(bid)}
    IN  IF hits = {} THEN 1 ELSE CHOOSE i \in hits : \A j \in hits : i <= j

\* workflow_db.query(Lead).filter(bitrix24_lead_id == str(id)).first(): the
\* index of the row, 0 when there is none
FindLead(rows, bid) ==
    LET hits == {i \in 1..Len(rows) : rows[i].bitrix24_lead_id = PyStr(bid)}
    IN  IF hits = {} THEN 0 ELSE CHOOSE i \in hits : \A j \in hits : i <= j

\* a status update that clears the semantic status the remote does not send
ApplyStatusClear(lead, kind, lead_data) ==
    LET status_id == DictGet(lead_data, StatusKey(kind), None)
        status_semantic_id == DictGet(lead_data, SemanticKey(kind), None)
    IN  [lead EXCEPT !.status = status_id,
                     !.status_semantic_id =
                         IF Truthy(status_semantic_id)
                         THEN Str(PyStr(status_semantic_id)) ELSE None]

\* lead.status = status_id; status_semantic_id only when the remote has one
ApplyStatus(lead, kind, lead_data) ==
    LET status_id == DictGet(lead_data, StatusKey(kind), None)
        status_semantic_id == DictGet(lead_data, SemanticKey(kind), None)
    IN  [lead EXCEPT !.status = status_id,
                     !.status_semantic_id =
                         IF Truthy(status_semantic_id)
                         THEN Str(PyStr(status_semantic_id)) ELSE @]

\* a display name whose joined text is not trimmed
DisplayNameUntrimmed(user_data) ==
    IF ~Truthy(user_data) THEN None
    ELSE LET n == DictGet(user_data, "NAME", Str(""))
             l == DictGet(user_data, "LAST_NAME", Str(""))
         IN  IF n.t # "str" \/ l.t # "str" THEN None
             ELSE LET name == Strip(n.s)
                      last_name == Strip(l.s)
                  IN  IF name # "" \/ last_name # ""
                      THEN Str(name \o " " \o last_name)
                      ELSE None

\* the display name from a user.get answer; None when there is none.
\* NAME or LAST_NAME present but None makes .strip() raise, which the inner
\* except turns into None as well.
DisplayName(user_data) ==
    IF ~Truthy(user_data) THEN None
    ELSE LET n == DictGet(user_data, "NAME", Str(""))
             l == DictGet(user_data, "LAST_NAME", Str(""))
         IN  IF n.t # "str" \/ l.t # "str" THEN None
             ELSE LET name == Strip(n.s)
                      last_name == Strip(l.s)
                  IN  IF name # "" \/ last_name # ""
                      THEN Str(Strip(name \o " " \o last_name))
                      ELSE None

\* a mapping query without the update_on_event filter
FieldMappingsAnyFlag(ms, workflow_id, kind) ==
    SelectSeq(ms, LAMBDA m : /\ m.workflow_id = workflow_id
                             /\ m.entity_type = kind)

\* the mappings the event applies, in row order
FieldMappings(ms, workflow_id, kind) ==
    SelectSeq(ms, LAMBDA m : /\ m.workflow_id = workflow_id
                             /\ m.entity_type = kind
                             /\ m.update_on_event = TRUE)

\* `if field_value:` in place of `is not None`
FieldPresentTruthy(field_value) == Truthy(field_value)

\* `field_value is not None`
FieldPresent(field_value) == field_value.t # "null"

\* the index of the first child row of the lead with that name, 0 if none
FindLeadField(rows, lead_id, field_name) ==
    LET hits == {i \in 1..Len(rows) :
                    rows[i].lead_id = lead_id /\ rows[i].field_name = field_name}
    IN  IF hits = {} THEN 0 ELSE CHOOSE i \in hits : \A j \in hits : i <= j

\* an upsert that adds a row without looking for one
UpsertFieldAppend(rows, lead_id, field_name, field_value_str) ==
    Append(rows, [lead_id |-> lead_id, field_name |-> field_name,
                  field_value |-> field_value_str])

\* update the child row in place, or add one
UpsertField(rows, lead_id, field_name, field_value_str) ==
    LET i == FindLeadField(rows, lead_id, field_name)
    IN  IF i # 0 THEN [rows EXCEPT ![i].field_value = field_value_str]
        ELSE Append(rows, [lead_id |-> lead_id, field_name |-> field_name,
                           field_value |-> field_value_str])

\* the loop over field_mappings, from mapping i on
RECURSIVE ApplyMappings(_, _, _, _, _)
ApplyMappings(rows, ms, i, lead_id, lead_data) ==
    IF i > Len(ms) THEN rows
    ELSE LET field_value == DictGet(lead_data, ms[i].bitrix24_field_id, None)
         IN  IF FieldPresent(field_value)
             THEN ApplyMappings(UpsertField(rows, lead_id, ms[i].field_name,
                                            PyStr(field_value)),
                                ms, i + 1, lead_id, lead_data)
             ELSE ApplyMappings(rows, ms, i + 1, lead_id, lead_data)

\* some mapping of ms has a value to store, so the child table is queried
QueriesFields(ms, lead_data) ==
    \E i \in 1..Len(ms) : FieldPresent(DictGet(lead_data, ms[i].bitrix24_field_id, None))

\* workflow_db.commit() for the lead: the UPDATE carries the attributes the
\* handler changed on the object it loaded
CommitLead(cur, loaded, obj) ==
    [cur EXCEPT !.status = IF obj.status # loaded.status THEN obj.status ELSE @,
                !.status_semantic_id =
                    IF obj.status_semantic_id # loaded.status_semantic_id
                    THEN obj.status_semantic_id ELSE @,
                !.assigned_by_name =
                    IF obj.assigned_by_name # loaded.assigned_by_name
                    THEN obj.assigned_by_name ELSE @]

\* a commit whose UPDATE reaches every row of the table
UpdateLeadAll(rows, i, loaded, obj) ==
    [k \in 1..Len(rows) |-> CommitLead(rows[k], loaded, obj)]

\* a commit that adds the loaded object as a new row
UpdateLeadInsert(rows, i, loaded, obj) == Append(rows, obj)

\* the leads table after the commit: the row the event loaded is updated
UpdateLead(rows, i, loaded, obj) == [rows EXCEPT ![i] = CommitLead(@, loaded, obj)]

\* the storage operations of one event that may raise
Faults == {"none", "session", "lookup", "mappings", "upsert", "commit"}

Done(l, resp, outcome) == [l EXCEPT !.pc = "done", !.resp = resp, !.outcome = outcome]

Step(l, name) == [l EXCEPT !.calls = Append(@, name)]

\* the operation of the event that raised an exception
Raise(l, name) == [l EXCEPT !.raised = name]

\* the exception a storage fault raises in the stretch from the mapping
\* query to the commit, if that operation is reached
FaultHits(fault, ms, lead_data) ==
    \/ fault = "mappings"
    \/ fault = "upsert" /\ QueriesFields(ms, lead_data)
    \/ fault = "commit"

\* a session whose changes reach the tables as they are made
PersistedAlways(committed, before, after) == after

\* what the tables hold after the stretch: the session's changes reach them
\* only through workflow_db.commit(), the last statement of the stretch; an
\* exception before it leaves the except clause, which commits nothing
Persisted(committed, before, after) == IF committed THEN after ELSE before

\* a stretch that commits before it looks up and applies the mappings
FinishStepsCommitFirst(l, fault, ms, lead_data) ==
    IF fault = "mappings" THEN Step(l, "mapping_lookup")
    ELSE IF fault = "upsert" /\ QueriesFields(ms, lead_data)
    THEN Step(Step(l, "mapping_lookup"), "upsert")
    ELSE Step(Step(Step(l, "commit"), "mapping_lookup"), "upsert")

\* the steps of the stretch that ran
FinishSteps(l, fault, ms, lead_data) ==
    IF fault = "mappings" THEN Step(l, "mapping_lookup")
    ELSE IF fault = "upsert" /\ QueriesFields(ms, lead_data)
    THEN Step(Step(l, "mapping_lookup"), "upsert")
    ELSE Step(Step(Step(l, "mapping_lookup"), "upsert"), "commit")

\* From the display name on: the mapping query, the upserts and the commit.
Finish(h, l0, name, fault) ==
    LET l1 == [l0 EXCEPT !.assigned_by_name = name]
        ms == FieldMappings(mappings, l1.wf, l1.kind)
        obj == [ApplyStatus(l1.loaded, l1.kind, l1.lead_data)
                    EXCEPT !.assigned_by_name = name]
        committed == ~FaultHits(fault, ms, l1.lead_data)
    IN  /\ hs' = [hs EXCEPT ![h] =
                     Done(Raise(FinishSteps(l1, fault, ms, l1.lead_data),
                                IF committed THEN "" ELSE fault), 200,
                          IF committed THEN "mutated" ELSE "aborted")]
        /\ leads' = Persisted(committed, leads,
                       [leads EXCEPT ![l1.wf] = UpdateLead(@, l1.lead_id, l1.loaded, obj)])
        /\ lead_fields' = Persisted(committed, lead_fields,
                       [lead_fields EXCEPT ![l1.wf] =
                           ApplyMappings(@, ms, 1, l1.loaded.id, l1.lead_data)])

(***************************************************************************)
(* The handler, one action per stretch between two awaits.                 *)
(***************************************************************************)
\* the locals after the synchronous part from the decoded body to the
\* entity fetch
Dispatch(l0, data, lookup_raises) ==
    LET domain == extract_auth_field(data, "domain")
        wf == FindWorkflow(workflows, domain)
        app_token == extract_auth_field(data, "application_token")
        event == DictGet(data, "event", Str(""))
        bid == EventEntityId(data)
        l1 == [l0 EXCEPT !.data = data, !.domain = domain]
        l2 == [Step(l1, "tenant_lookup") EXCEPT !.wf = wf, !.app_token = app_token]
        l3 == [l2 EXCEPT !.authed = TRUE, !.event = event]
        l4 == [l3 EXCEPT !.kind = EventKind(event)]
        l5 == [Step(l4, "extract_id") EXCEPT
                  !.event_id = extract_id_from_nested_dict(DictGet(data, "data", Dict(<<>>))),
                  !.bid = bid]
    IN  IF ~Truthy(domain) THEN Done(l1, 400, "missing_domain")
        ELSE IF lookup_raises
             THEN Done(Raise(Step(l1, "tenant_lookup"), "tenant_lookup"), 500, "unhandled")
        ELSE IF wf = 0 THEN Done(l2, 404, "workflow_not_found")
        ELSE IF ~TokenAccepted(WorkflowRow(workflows, wf).app_token, app_token)
             THEN Done(l2, 403, "forbidden")
        ELSE IF EventRaises(event) THEN Done(l3, 500, "unhandled")
        ELSE IF EventKind(event) = "unknown" THEN Done(l4, 200, "unknown_event")
        ELSE IF ~Truthy(bid) THEN Done(l5, 200, "missing_id")
        ELSE IF ~IntOk(bid) THEN Done(l5, 200, "fetch_failed")
        ELSE [Step(l5, "fetch_entity") EXCEPT !.pc = "fetch_entity"]

\* a request with that body arrives
ReceiveOf(h, data, lookup_raises) ==
    /\ hs[h].pc = "idle"
    /\ nEvents[h] < MaxEvents
    /\ hs' = [hs EXCEPT ![h] =
                 Dispatch([Idle EXCEPT !.leads0 = leads, !.fields0 = lead_fields],
                          data, lookup_raises)]
    /\ nEvents' = [nEvents EXCEPT ![h] = @ + 1]
    /\ UNCHANGED <<schema, schema0, runs, dep, workflows, mappings, leads, lead_fields>>

Receive(h) ==
    \E data \in Requests, lookup_raises \in BOOLEAN : ReceiveOf(h, data, lookup_raises)

\* a request with a form body arrives: the pairs are decoded into the tree
\* the handler works on; an exception while decoding is answered 400
ReceiveFormOf(h, form) ==
    /\ hs[h].pc = "idle"
    /\ nEvents[h] < MaxEvents
    /\ LET l0 == [Idle EXCEPT !.form = form, !.leads0 = leads, !.fields0 = lead_fields]
           data == Decode(form)
       IN  hs' = [hs EXCEPT ![h] =
                     IF data = TypeError THEN Done(l0, 400, "invalid_body")
                     ELSE Dispatch(l0, data, FALSE)]
    /\ nEvents' = [nEvents EXCEPT ![h] = @ + 1]
    /\ UNCHANGED <<schema, schema0, runs, dep, workflows, mappings, leads, lead_fields>>

ReceiveForm(h) == \E form \in FormInputs : ReceiveFormOf(h, form)

\* an entity fetch that is issued again when it fails
EntityFailsRetry(h) ==
    /\ hs[h].pc = "fetch_entity"
    /\ hs' = [hs EXCEPT ![h] = Step(@, "fetch_entity")]
    /\ UNCHANGED <<schema, schema0, runs, dep, workflows, mappings, leads, lead_fields, nEvents>>

\* get_lead / get_deal raises
EntityFails(h) ==
    /\ hs[h].pc = "fetch_entity"
    /\ hs' = [hs EXCEPT ![h] = Done(Raise(@, "fetch_entity"), 200, "fetch_failed")]
    /\ UNCHANGED <<schema, schema0, runs, dep, workflows, mappings, leads, lead_fields, nEvents>>

\* a handler that goes on whatever the status is
HasStatusAlways(status_id) == TRUE

\* `if status_id:`, the condition the whole reconciliation stands under
HasStatus(status_id) == Truthy(status_id)

\* get_lead / get_deal answers lead_data: status, record lookup, and either
\* the user fetch or straight on to the commit
EntityReturnsOf(h, lead_data, fault) ==
    /\ hs[h].pc = "fetch_entity"
    /\ LET l1 == [hs[h] EXCEPT !.lead_data = lead_data]
           status_id == DictGet(lead_data, StatusKey(l1.kind), None)
           i == FindLead(leads[l1.wf], l1.bid)
           l2 == [Step(Step(l1, "open_store"), "record_lookup") EXCEPT
                     !.lead_id = i,
                     !.loaded = IF i = 0 THEN None ELSE leads[l1.wf][i]]
           assigned_by_id == DictGet(lead_data, "ASSIGNED_BY_ID", None)
       IN  IF ~HasStatus(status_id)
           THEN /\ hs' = [hs EXCEPT ![h] = Done(l1, 200, "no_status")]
                /\ UNCHANGED <<leads, lead_fields>>
           ELSE IF fault = "session"
           THEN /\ hs' = [hs EXCEPT ![h] =
                             Done(Raise(Step(l1, "open_store"), "session"), 200, "aborted")]
                /\ UNCHANGED <<leads, lead_fields>>
           ELSE IF fault = "lookup"
           THEN /\ hs' = [hs EXCEPT ![h] =
                             Done(Raise(Step(Step(l1, "open_store"), "record_lookup"),
                                        "lookup"), 200, "aborted")]
                /\ UNCHANGED <<leads, lead_fields>>
           ELSE IF i = 0
           THEN /\ hs' = [hs EXCEPT ![h] = Done(l2, 200, "lead_not_found")]
                /\ UNCHANGED <<leads, lead_fields>>
           ELSE IF Truthy(assigned_by_id) /\ IntOk(assigned_by_id)
           THEN /\ hs' = [hs EXCEPT ![h] =
                             [Step(l2, "fetch_user") EXCEPT !.pc = "fetch_user"]]
                /\ UNCHANGED <<leads, lead_fields>>
           ELSE Finish(h, l2, None, fault)
    /\ UNCHANGED <<schema, schema0, runs, dep, workflows, mappings, nEvents>>

EntityReturns(h) ==
    \E lead_data \in Entities(hs[h].kind), fault \in Faults :
        EntityReturnsOf(h, lead_data, fault)

\* get_user answers user_data: the display name, then on to the commit
UserReturnsOf(h, user_data, fault) ==
    /\ hs[h].pc = "fetch_user"
    /\ Finish(h, [hs[h] EXCEPT !.user = user_data], DisplayName(user_data), fault)
    /\ UNCHANGED <<schema, schema0, runs, dep, workflows, mappings, nEvents>>

UserReturns(h) ==
    \E user_data \in Users, fault \in Faults \ {"session", "lookup"} :
        UserReturnsOf(h, user_data, fault)

\* a user fetch whose exception reaches the outer except clause
UserFailsAborts(h, fault) ==
    /\ hs[h].pc = "fetch_user"
    /\ hs' = [hs EXCEPT ![h] = Done([@ EXCEPT !.user_raised = TRUE], 200, "aborted")]
    /\ UNCHANGED <<schema, schema0, runs, dep, workflows, mappings, leads, lead_fields, nEvents>>

\* get_user raises: no display name, then on to the commit
UserFailsOf(h, fault) ==
    /\ hs[h].pc = "fetch_user"
    /\ Finish(h, [hs[h] EXCEPT !.user_raised = TRUE], None, fault)
    /\ UNCHANGED <<schema, schema0, runs, dep, workflows, mappings, nEvents>>

UserFails(h) ==
    \E fault \in Faults \ {"session", "lookup"} : UserFailsOf(h, fault)

\* the response is sent and the request's locals are gone
Respond(h) ==
    /\ hs[h].pc = "done"
    /\ hs' = [hs EXCEPT ![h] = Idle]
    /\ UNCHANGED <<schema, schema0, runs, dep, workflows, mappings, leads, lead_fields, nEvents>>

\* one request at a time
SeqNext ==
    \/ Receive(1)
    \/ ReceiveForm(1)
    \/ EntityFails(1)
    \/ EntityReturns(1)
    \/ UserReturns(1)
    \/ UserFails(1)
    \/ Respond(1)

Spec == Init /\ [][SeqNext]_vars

\* One request at a time, where every outbound call that was issued returns
\* or fails and the response of a finished handler is sent.
SpecLive ==
    /\ Init
    /\ [][SeqNext]_vars
    /\ WF_vars(EntityFails(1) \/ EntityReturns(1))
    /\ WF_vars(UserFails(1) \/ UserReturns(1))
    /\ WF_vars(Respond(1))

(***************************************************************************)
(* The same event delivered a second time: request 2 arrives once request  *)
(* 1 has committed, with the same body, and the remote CRM answers it as   *)
(* it answered request 1.                                                  *)
(***************************************************************************)
ReplayReceive ==
    /\ hs[1].pc = "done" /\ hs[1].outcome = "mutated"
    /\ ReceiveOf(2, hs[1].data, FALSE)

ReplayEntity == EntityReturnsOf(2, hs[1].lead_data, "none")

ReplayUser ==
    IF hs[1].user_raised THEN UserFailsOf(2, "none")
    ELSE UserReturnsOf(2, hs[1].user, "none")

ReplayNext ==
    \/ Receive(1)
    \/ EntityFails(1)
    \/ EntityReturns(1)
    \/ UserReturns(1)
    \/ UserFails(1)
    \/ ReplayReceive
    \/ ReplayEntity
    \/ ReplayUser

SpecReplay == Init /\ [][ReplayNext]_vars

(***************************************************************************)
(* Two requests in flight at once: the event loop runs one handler up to   *)
(* its next await and then any handler whose awaited call has answered.    *)
(***************************************************************************)
ConcRequests ==
    {Body("nested", Str("a.b24"), Str("tok"), Str("ONCRMLEADUPDATE"), FieldsWithId("5")),
     Body("nested", Str("a.b24"), Str("tok"), Str("ONCRMLEADUPDATE"), FieldsWithId("8")),
     Body("nested", Str("a.b24"), Str("tok"), Str("ONCRMDEALUPDATE"), FieldsWithId("5")),
     Body("nested", Str("b.b24"), Str("tok"), Str("ONCRMLEADUPDATE"), FieldsWithId("5"))}

ConcEntities(kind) ==
    {Entity(kind, Str("NEW"), Absent, Absent, Num(7), Str("y")),
     Entity(kind, Str("NEW"), Absent, Str("9"), Num(8), Absent),
     Entity(kind, Str("WON"), Str("S"), Str("9"), Absent, Str("z"))}

ConcUsers == {None, Dict(<< <<"NAME", Str(" Ann ")>>, <<"LAST_NAME", Str("Lee")>> >>)}

ConcFaults == {"none", "commit"}

\* requests the two handler slots take together in one behaviour
MaxConcEvents == 2

ConcReceive(h) ==
    /\ nEvents[1] + nEvents[2] < MaxConcEvents
    /\ \E data \in ConcRequests : ReceiveOf(h, data, FALSE)

ConcEntityReturns(h) ==
    \E lead_data \in ConcEntities(hs[h].kind), fault \in ConcFaults :
        EntityReturnsOf(h, lead_data, fault)

ConcUserReturns(h) ==
    \E user_data \in ConcUsers, fault \in ConcFaults : UserReturnsOf(h, user_data, fault)

ConcUserFails(h) == \E fault \in ConcFaults : UserFailsOf(h, fault)

ConcNext ==
    \E h \in Handlers :
        \/ ConcReceive(h)
        \/ EntityFails(h)
        \/ ConcEntityReturns(h)
        \/ ConcUserReturns(h)
        \/ ConcUserFails(h)
        \/ Respond(h)

SpecConc == Init /\ [][ConcNext]_vars

(***************************************************************************)
(* The migration script: the functions are run one after another, each on  *)
(* what the one before left, also when it raised.                          *)
(***************************************************************************)
\* before the migrations are run no event is handled: the tables hold no
\* row the handler reads
MigrateInit ==
    /\ workflows = << >>
    /\ mappings = << >>
    /\ leads = [w \in WorkflowIds |-> << >>]
    /\ lead_fields = [w \in WorkflowIds |-> << >>]
    /\ hs = [h \in Handlers |-> Idle]
    /\ nEvents = [h \in Handlers |-> 0]
    /\ schema \in StartSchemas
    /\ schema0 = schema
    /\ runs = << >>
    /\ dep = NoCall

RunMigration(fn) ==
    /\ Len(runs) < MaxRuns
    /\ LET ran == Migrate(fn, schema)
       IN  /\ schema' = ran.db
           /\ schema0' = schema
           /\ runs' = Append(runs, [fn |-> fn, raised |-> ran.raised])
    /\ UNCHANGED <<workflows, mappings, leads, lead_fields, hs, nEvents, dep>>

MigrateNext == \E fn \in Migrations : RunMigration(fn)

SpecMigrate == MigrateInit /\ [][MigrateNext]_vars

(***************************************************************************)
(* An admin endpoint: the framework resolves get_current_user, and with    *)
(* the user it returns get_admin_user; a dependency that raises ends the   *)
(* request with its status.                                                *)
(***************************************************************************)
\* a request arrives with its cookie; session_data is what the session
\* store answers for that cookie, users what the users table holds
CallAdminEndpoint(session_id, session_data, users) ==
    /\ dep.pc = "idle"
    /\ dep' = [dep EXCEPT !.pc = "get_current_user", !.session_id = session_id,
                          !.session_data = session_data, !.users = users]
    /\ UNCHANGED <<workflows, mappings, leads, lead_fields, hs, nEvents,
                   schema, schema0, runs>>

get_current_user ==
    /\ dep.pc = "get_current_user"
    /\ dep' =
          IF ~HasCookie(dep.session_id) THEN Unauthorized(dep, "Not authenticated")
          ELSE IF ~Truthy(dep.session_data)
          THEN Unauthorized(dep, "Session expired or invalid")
          ELSE LET user == FirstUser(dep.users, Get(dep.session_data, "user_id").n)
               IN  IF user = NoUser THEN Unauthorized(dep, "User not found")
                   ELSE [dep EXCEPT !.pc = "get_admin_user", !.current_user = user]
    /\ UNCHANGED <<workflows, mappings, leads, lead_fields, hs, nEvents,
                   schema, schema0, runs>>

get_admin_user ==
    /\ dep.pc = "get_admin_user"
    /\ dep' =
          IF dep.current_user.role # "admin" THEN Forbidden(dep, "Admin access required")
          ELSE [dep EXCEPT !.pc = "done", !.admin_user = dep.current_user]
    /\ UNCHANGED <<workflows, mappings, leads, lead_fields, hs, nEvents,
                   schema, schema0, runs>>

AdminNext ==
    \/ \E session_id \in SessionIds, session_data \in SessionResults, users \in UserTables :
          CallAdminEndpoint(session_id, session_data, users)
    \/ get_current_user
    \/ get_admin_user

SpecAdmin == Init /\ [][AdminNext]_vars

(***************************************************************************)
(* What the claims speak of.                                               *)
(***************************************************************************)
Running(h) == hs[h].pc # "idle"

\* the tables are as they were when the request arrived
StoreUnchanged(h) == leads = hs[h].leads0 /\ lead_fields = hs[h].fields0

CallCount(h, name) ==
    Cardinality({i \in 1..Len(hs[h].calls) : hs[h].calls[i] = name})

NoOutboundCall(h) == CallCount(h, "fetch_entity") = 0 /\ CallCount(h, "fetch_user") = 0

Secret(h) == WorkflowRow(workflows, hs[h].wf).app_token

Rejected(h, code) ==
    /\ hs[h].pc = "done" /\ hs[h].resp = code
    /\ NoOutboundCall(h) /\ StoreUnchanged(h)

\* C1: for a workflow with a configured app_token, a request is past
\* authentication only if its application_token is present and equal to
\* it; with the token absent or different the request ends 403, with no
\* outbound call made and the tables unchanged.
C1_TokenRequired ==
    \A h \in Handlers :
        (Running(h) /\ hs[h].wf # 0 /\ Truthy(Secret(h))) =>
            /\ hs[h].authed => (hs[h].app_token.t = "str" /\ hs[h].app_token = Secret(h))
            /\ hs[h].app_token # Secret(h) => Rejected(h, 403)

C1_Witness ==
    \E h \in Handlers :
        /\ hs[h].wf = 1 /\ hs[h].app_token = Str("to")
        /\ hs[h].pc = "done" /\ hs[h].resp = 403

\* C2: a request without a domain ends 400, and (the workflow lookup having
\* answered) a request whose domain is the domain of no workflow ends 404;
\* both with no outbound call made and the tables unchanged.
C2_DomainResolution ==
    \A h \in Handlers :
        Running(h) =>
            /\ (hs[h].domain.t = "null" \/ hs[h].domain = Str("")) => Rejected(h, 400)
            /\ ( /\ hs[h].domain.t = "str" /\ hs[h].domain.s # ""
                 /\ \A i \in 1..Len(workflows) :
                        workflows[i].bitrix24_domain # hs[h].domain.s
                 /\ hs[h].outcome # "unhandled" ) => Rejected(h, 404)

C2_Witness ==
    \E h \in Handlers :
        /\ hs[h].domain = Str("a.b2")
        /\ hs[h].pc = "done" /\ hs[h].resp = 404

\* C3: for a workflow without a configured app_token, every request whose
\* domain resolves to it is past authentication, whatever its
\* application_token is, and goes on to the event dispatch.
C3_NoSecretAcceptsAll ==
    \A h \in Handlers :
        (Running(h) /\ hs[h].wf # 0 /\ ~Truthy(Secret(h))) =>
            /\ hs[h].authed
            /\ hs[h].resp \notin {400, 403, 404}

C3_Witness ==
    \E h \in Handlers :
        /\ hs[h].wf = 2 /\ hs[h].app_token = None
        /\ hs[h].authed /\ hs[h].pc = "fetch_entity"

EventFragments == {"ONCRMLEADUPDATE", "ONCRMLEADADD", "ONCRMDEALUPDATE", "ONCRMDEALADD"}

MatchesNoFragment(h) == \A f \in EventFragments : ~Contains(hs[h].event.s, f)

NoIdExtracted(h) == hs[h].bid.t = "null" \/ hs[h].bid = Str("")

\* no row of the workflow's leads table has the event's id as its remote id
NoLocalRecord(h) ==
    \A i \in 1..Len(hs[h].leads0[hs[h].wf]) :
        hs[h].leads0[hs[h].wf][i].bitrix24_lead_id # PyStr(hs[h].bid)

C5_FetchFailure ==
    \A h \in Handlers :
        /\ CallCount(h, "fetch_entity") <= 1
        /\ hs[h].outcome = "fetch_failed" =>
              (hs[h].pc = "done" /\ hs[h].resp = 200 /\ StoreUnchanged(h))

C5_Witness ==
    \E h \in Handlers :
        /\ hs[h].outcome = "fetch_failed" /\ CallCount(h, "fetch_entity") = 1
        /\ hs[h].pc = "done" /\ hs[h].resp = 200

RemoteStatus(h) ==
    DictGet(hs[h].lead_data, IF hs[h].kind = "lead" THEN "STATUS_ID" ELSE "STAGE_ID", None)

RemoteSemantic(h) ==
    DictGet(hs[h].lead_data,
            IF hs[h].kind = "lead" THEN "STATUS_SEMANTIC_ID" ELSE "STAGE_SEMANTIC_ID", None)

\* the event's local record as the table holds it now
Record(h) == leads[hs[h].wf][hs[h].lead_id]

\* the rows of a lead_fields table for one record and one field name
FieldRows(rows, lead_id, name) ==
    {i \in 1..Len(rows) : rows[i].lead_id = lead_id /\ rows[i].field_name = name}

\* the mappings of the event's workflow and kind flagged update_on_event
\* whose remote field the fetched entity holds with a value that is not None
Applicable(h) ==
    {i \in 1..Len(mappings) :
        /\ mappings[i].workflow_id = hs[h].wf
        /\ mappings[i].entity_type = hs[h].kind
        /\ mappings[i].update_on_event
        /\ Has(hs[h].lead_data, mappings[i].bitrix24_field_id)
        /\ Get(hs[h].lead_data, mappings[i].bitrix24_field_id).t # "null"}

\* each such mapping has its one child row, holding the remote value as text
MappedFieldsStored(h) ==
    \A i \in Applicable(h) :
        LET before == FieldRows(hs[h].fields0[hs[h].wf], hs[h].loaded.id,
                                mappings[i].field_name)
            now == FieldRows(lead_fields[hs[h].wf], hs[h].loaded.id,
                             mappings[i].field_name)
        IN  /\ now # {}
            /\ before # {} => now = before
            /\ before = {} => Cardinality(now) = 1
            /\ \A r \in now :
                  lead_fields[hs[h].wf][r].field_value =
                      PyStr(Get(hs[h].lead_data, mappings[i].bitrix24_field_id))

\* C6: the changes of one event reach the tables together or not at all:
\* while the event is in flight, and when a step after the record lookup
\* raised, the tables are as they were; once they differ, the status, the
\* display name and every mapped field of the event are in them.
C6_AllOrNothing ==
    \A h \in Handlers :
        Running(h) =>
            /\ hs[h].pc # "done" => StoreUnchanged(h)
            /\ hs[h].outcome = "aborted" => (StoreUnchanged(h) /\ hs[h].resp = 200)
            /\ ~StoreUnchanged(h) =>
                  /\ hs[h].outcome = "mutated"
                  /\ Record(h).status = RemoteStatus(h)
                  /\ Record(h).assigned_by_name = hs[h].assigned_by_name
                  /\ MappedFieldsStored(h)

C6_Witness ==
    \E h \in Handlers :
        /\ hs[h].pc = "done" /\ hs[h].outcome = "aborted" /\ hs[h].lead_id # 0
        /\ CallCount(h, "upsert") = 1 /\ CallCount(h, "commit") = 0
        /\ Record(h).status # RemoteStatus(h)
        /\ StoreUnchanged(h)

\* C7: the same event handled a second time, the remote entity, the remote
\* user and the mappings being the same, commits again and leaves every
\* leads row and every lead_fields row as the first handling left it: no
\* child row is added, and the rows hold the same values.
C7_ReplayIdempotent ==
    hs[2].pc = "done" =>
        /\ hs[2].outcome = "mutated"
        /\ leads = hs[2].leads0
        /\ lead_fields = hs[2].fields0

C7_Witness ==
    /\ hs[2].pc = "done" /\ hs[2].outcome = "mutated"
    /\ Len(hs[2].fields0[hs[2].wf]) > Len(hs[1].fields0[hs[1].wf])
    /\ CallCount(2, "upsert") = 1

\* C8: after an event that committed, every mapping of its workflow and
\* kind with update_on_event set whose remote field the fetched entity
\* holds with a value other than None (the empty string included) has a
\* child row for (record, field name) holding str(value): the row that was
\* there, updated in place, or else one new row.
C8_MappedFieldsUpserted ==
    \A h \in Handlers :
        (hs[h].pc = "done" /\ hs[h].outcome = "mutated") => MappedFieldsStored(h)

C8_Witness ==
    \E h \in Handlers :
        /\ hs[h].pc = "done" /\ hs[h].outcome = "mutated"
        /\ hs[h].wf = 1 /\ hs[h].kind = "lead" /\ hs[h].lead_id = 1
        /\ DictGet(hs[h].lead_data, "UF_1", None) = Str("")
        /\ \E i \in 1..Len(lead_fields[1]) :
              /\ lead_fields[1][i] = [lead_id |-> 1, field_name |-> "f1", field_value |-> ""]
              /\ hs[h].fields0[1][i].field_value = "old"

\* the lead_fields rows that are new or differ from the row that was there
TouchedRows(h, w) ==
    {i \in 1..Len(lead_fields[w]) :
        \/ i > Len(hs[h].fields0[w])
        \/ lead_fields[w][i] # hs[h].fields0[w][i]}

\* C9: an event creates or changes child rows only in its own workflow's
\* table, and only rows whose field name is the field_name of a mapping of
\* that workflow and of the event's entity kind with update_on_event set.
C9_OnlyFlaggedMappings ==
    \A h \in Handlers :
        Running(h) =>
            \A w \in WorkflowIds : \A i \in TouchedRows(h, w) :
                /\ w = hs[h].wf
                /\ \E k \in 1..Len(mappings) :
                      /\ mappings[k].workflow_id = hs[h].wf
                      /\ mappings[k].entity_type = hs[h].kind
                      /\ mappings[k].update_on_event
                      /\ mappings[k].field_name = lead_fields[w][i].field_name

C9_Witness ==
    \E h \in Handlers :
        /\ hs[h].pc = "done" /\ hs[h].outcome = "mutated"
        /\ hs[h].wf = 1 /\ hs[h].kind = "lead"
        /\ DictGet(hs[h].lead_data, "UF_2", None) = Str("y")
        /\ TouchedRows(h, 1) # {}

\* the event's local record as it was when the request arrived
RecordBefore(h) == hs[h].leads0[hs[h].wf][hs[h].lead_id]

\* C10: after an event that committed, the record's status is the remote
\* STATUS_ID (lead) or STAGE_ID (deal); its semantic status is the text of
\* the remote STATUS_SEMANTIC_ID / STAGE_SEMANTIC_ID when the entity holds a
\* non-empty one, changes to nothing else, and is the prior value, not
\* cleared, when the entity holds none.
C10_StatusAndSemantic ==
    \A h \in Handlers :
        (hs[h].pc = "done" /\ hs[h].outcome = "mutated") =>
            /\ Record(h).status = RemoteStatus(h)
            /\ Truthy(RemoteSemantic(h)) =>
                  Record(h).status_semantic_id = Str(PyStr(RemoteSemantic(h)))
            /\ Record(h).status_semantic_id # RecordBefore(h).status_semantic_id =>
                  /\ RemoteSemantic(h).t # "null"
                  /\ Record(h).status_semantic_id = Str(PyStr(RemoteSemantic(h)))
            /\ RemoteSemantic(h).t = "null" =>
                  Record(h).status_semantic_id = RecordBefore(h).status_semantic_id

C10_Witness ==
    \E h \in Handlers :
        /\ hs[h].pc = "done" /\ hs[h].outcome = "mutated"
        /\ RemoteSemantic(h) = None
        /\ RecordBefore(h).status_semantic_id = Str("P")
        /\ Record(h).status_semantic_id = Str("P")
        /\ Record(h).status = Str("NEW") /\ RecordBefore(h).status = Str("OLD")

\* NAME or LAST_NAME of a user.get answer without the blanks around it
TrimmedName(user_data, key) ==
    IF IsDict(user_data) /\ Has(user_data, key) THEN Strip(Get(user_data, key).s) ELSE ""

\* the answer of the user fetch the event made, if it made one that answered
UserFetched(h) ==
    /\ Has(hs[h].lead_data, "ASSIGNED_BY_ID")
    /\ CallCount(h, "fetch_user") = 1
    /\ ~hs[h].user_raised

\* the display name the event is to leave: the non-blank ones of NAME and
\* LAST_NAME joined by one space, or nothing
NameToLeave(h) ==
    LET n == TrimmedName(hs[h].user, "NAME")
        l == TrimmedName(hs[h].user, "LAST_NAME")
    IN  IF ~UserFetched(h) \/ (n = "" /\ l = "") THEN None
        ELSE IF l = "" THEN Str(n)
        ELSE IF n = "" THEN Str(l)
        ELSE Str(n \o " " \o l)

C12_UserFailureDegradesOnly ==
    \A h \in Handlers :
        (hs[h].pc = "done" /\ hs[h].user_raised) =>
            /\ CallCount(h, "mapping_lookup") = 1
            /\ hs[h].resp = 200
            /\ hs[h].raised = "" =>
                  /\ hs[h].outcome = "mutated"
                  /\ CallCount(h, "commit") = 1
                  /\ Record(h).status = RemoteStatus(h)
                  /\ (Truthy(RemoteSemantic(h)) =>
                        Record(h).status_semantic_id = Str(PyStr(RemoteSemantic(h))))
                  /\ MappedFieldsStored(h)
                  /\ Record(h).assigned_by_name = None

C12_Witness ==
    \E h \in Handlers :
        /\ hs[h].pc = "done" /\ hs[h].user_raised /\ hs[h].raised = ""
        /\ hs[h].wf = 1 /\ hs[h].kind = "lead"
        /\ RecordBefore(h).assigned_by_name = Str("Bob")
        /\ Record(h).assigned_by_name = None
        /\ Record(h).status = Str("WON") /\ Record(h).status_semantic_id = Str("S")
        /\ Applicable(h) # {}

\* C13: whatever events were handled, one after another or at once, each
\* workflow's leads table holds the records it held at the start, row for
\* row with the same remote id, and no two rows of a table share a remote id.
C13_RecordSetFixed ==
    \A w \in WorkflowIds :
        /\ Len(leads[w]) = Len(InitLeads[w])
        /\ \A i \in 1..Len(leads[w]) :
              /\ leads[w][i].id = InitLeads[w][i].id
              /\ leads[w][i].bitrix24_lead_id = InitLeads[w][i].bitrix24_lead_id
        /\ \A i, j \in 1..Len(leads[w]) :
              leads[w][i].bitrix24_lead_id = leads[w][j].bitrix24_lead_id => i = j

C13_Witness ==
    \E h, g \in Handlers :
        /\ hs[h].pc = "done" /\ hs[h].outcome = "mutated"
        /\ hs[g].pc = "done" /\ hs[g].outcome = "lead_not_found"
        /\ hs[g].leads0 = InitLeads /\ hs[h].leads0 = InitLeads
        /\ leads # InitLeads

\* C14: every request that is past authentication is answered 200 with the
\* acknowledgement object, whatever its event name and payload, the remote
\* answers and the tables are.
C14_SameAcknowledgement ==
    \A h \in Handlers :
        (hs[h].pc = "done" /\ hs[h].authed) => hs[h].resp = 200

\* the answers the handler defines: the acknowledgement, client error,
\* forbidden and not found
DefinedResponses == {200, 400, 403, 404}

\* C15: a request during which an outbound call or a storage operation
\* raised (tenant lookup, opening the store, entity fetch, user fetch,
\* record lookup, mapping lookup, upsert, commit) still ends in one of the
\* defined answers.
C15_NoUnhandledFault ==
    \A h \in Handlers :
        (hs[h].pc = "done" /\ (hs[h].raised # "" \/ hs[h].user_raised)) =>
            hs[h].resp \in DefinedResponses

\* what a decoded tree holds at a nested path, from segment i of the path on
RECURSIVE ValueAt(_, _, _)
ValueAt(tree, path, i) ==
    IF i > Len(path) THEN tree
    ELSE IF IsDict(tree) /\ Has(tree, path[i]) THEN ValueAt(Get(tree, path[i]), path, i + 1)
    ELSE Absent

\* the tree holding one value at a nested path and nothing else
RECURSIVE TreeOf(_, _, _)
TreeOf(path, i, value) ==
    IF i > Len(path) THEN value
    ELSE Dict(<< <<path[i], TreeOf(path, i + 1, value)>> >>)

\* the request's body was the one form pair <<key, value>>
FormIsPair(h, key, value) == Running(h) /\ hs[h].form = << <<key, value>> >>

\* C16: a form body of one pair whose key is outer[k1]...[kn] decodes to the
\* tree that holds the value at the path outer -> k1 -> ... -> kn, one level
\* for each bracket segment; the pair <<"data[FIELDS][ID]", "7">> decodes
\* to {data: {FIELDS: {ID: "7"}}}.
C16_BracketPathDecoded ==
    \A h \in Handlers : \A path \in KeyPaths : \A v \in {"7", "9"} :
        FormIsPair(h, KeyOf(path), v) =>
            /\ ValueAt(hs[h].data, path, 1) = Str(v)
            /\ hs[h].data = TreeOf(path, 1, Str(v))

HasChar(key, c) == \E i \in 1..Len(key) : SubSeq(key, i, i) = c

\* key is name followed by closing brackets only, and name ends with none
NameBeforeBrackets(key, name) ==
    /\ \E n \in 0..Len(key) :
          /\ name = SubSeq(key, 1, n)
          /\ \A i \in (n + 1)..Len(key) : SubSeq(key, i, i) = "]"
    /\ \/ name = ""
       \/ SubSeq(name, Len(name), Len(name)) # "]"

\* the last pair of the request's form body, which the decoder reads last
LastPair(h) == hs[h].form[Len(hs[h].form)]

\* C17: a form pair whose key ends with "]" and holds no "[" is stored at
\* the top of the tree under the key without its trailing "]", and a pair
\* whose key holds neither "[" nor "]" under the whole key; the one pair
\* <<"ID]", "9">> decodes to {ID: "9"}.
C17_MalformedKeyTolerance ==
    \A h \in Handlers :
        (Running(h) /\ Len(hs[h].form) > 0) =>
            LET key == LastPair(h)[1]
                value == Str(LastPair(h)[2])
            IN  /\ (HasChar(key, "]") /\ ~HasChar(key, "[")
                       /\ SubSeq(key, Len(key), Len(key)) = "]") =>
                      \A name \in {SubSeq(key, 1, n) : n \in 0..Len(key)} :
                          NameBeforeBrackets(key, name) =>
                              /\ ValueAt(hs[h].data, <<name>>, 1) = value
                              /\ Len(hs[h].form) = 1 =>
                                    hs[h].data = Dict(<< <<name, value>> >>)
                /\ (~HasChar(key, "]") /\ ~HasChar(key, "[")) =>
                      /\ ValueAt(hs[h].data, <<key>>, 1) = value
                      /\ Len(hs[h].form) = 1 =>
                            hs[h].data = Dict(<< <<key, value>> >>)
                /\ FormIsPair(h, "ID]", "9") =>
                      hs[h].data = Dict(<< <<"ID", Str("9")>> >>)

C17_Witness ==
    \E h \in Handlers :
        /\ FormIsPair(h, "ID]", "9")
        /\ hs[h].pc = "done" /\ hs[h].outcome = "missing_domain"
        /\ hs[h].data = Dict(<< <<"ID", Str("9")>> >>)

\* the nested path a key is to decode to: the segments of outer[k1]...[kn],
\* the key itself when it has no bracket, the name before the brackets
\* when it only ends with "]"; <<>> for any other key
ClaimedPath(key) ==
    IF \E path \in KeyPaths : KeyOf(path) = key
    THEN CHOOSE path \in KeyPaths : KeyOf(path) = key
    ELSE IF ~HasChar(key, "[") /\ ~HasChar(key, "]") THEN <<key>>
    ELSE IF ~HasChar(key, "[") /\ SubSeq(key, Len(key), Len(key)) = "]"
    THEN << CHOOSE name \in {SubSeq(key, 1, n) : n \in 0..Len(key)} :
                NameBeforeBrackets(key, name) >>
    ELSE <<>>

IsPrefix(p, q) == Len(p) <= Len(q) /\ SubSeq(q, 1, Len(p)) = p

\* every key has a path, and no key's path is another's or leads to it
NonColliding(form) ==
    \A i, j \in 1..Len(form) :
        /\ ClaimedPath(form[i][1]) # <<>>
        /\ i # j => ~IsPrefix(ClaimedPath(form[i][1]), ClaimedPath(form[j][1]))

Orderings(n) == {f \in [1..n -> 1..n] : \A i, j \in 1..n : f[i] = f[j] => i = j}

\* two trees are the same mapping, whatever order their keys were added in
RECURSIVE TreeEq(_, _)
TreeEq(a, b) ==
    IF IsDict(a) /\ IsDict(b)
    THEN /\ Len(a.d) = Len(b.d)
         /\ \A i \in 1..Len(a.d) :
               /\ Has(b, a.d[i][1])
               /\ TreeEq(a.d[i][2], Get(b, a.d[i][1]))
    ELSE a = b

\* C18: when the paths of a form body's pairs do not collide, the body
\* decodes without error, and so does every permutation of its pairs, to
\* the same tree.
C18_OrderIndependent ==
    \A h \in Handlers :
        (Running(h) /\ Len(hs[h].form) > 1 /\ NonColliding(hs[h].form)) =>
            /\ hs[h].outcome # "invalid_body"
            /\ \A f \in Orderings(Len(hs[h].form)) :
                  LET permuted == Decode([i \in 1..Len(hs[h].form) |-> hs[h].form[f[i]]])
                  IN  permuted # TypeError /\ TreeEq(permuted, hs[h].data)

\* C19: decoding a form body raises no error, whichever pairs it holds, and
\* a path written by two pairs, or written as a leaf by one pair and as a
\* level of a nested path by another, holds what the last pair wrote.
\* Stated for keys of at most one bracket segment.
C19_LastPairWins ==
    \A h \in Handlers :
        ( /\ Running(h) /\ Len(hs[h].form) > 0
          /\ \A i \in 1..Len(hs[h].form) :
                Len(ClaimedPath(hs[h].form[i][1])) \in {1, 2} ) =>
            /\ hs[h].outcome # "invalid_body"
            /\ ValueAt(hs[h].data, ClaimedPath(LastPair(h)[1]), 1) = Str(LastPair(h)[2])

\* the auth field a tree holds: the value under auth[name] when auth is a
\* mapping holding name, else the value of the flat key, else none
FieldOfEitherForm(tree, name) ==
    IF Has(tree, "auth") /\ IsDict(Get(tree, "auth")) /\ Has(Get(tree, "auth"), name)
    THEN Get(Get(tree, "auth"), name)
    ELSE IF Has(tree, "auth[" \o name \o "]") THEN Get(tree, "auth[" \o name \o "]")
    ELSE None

\* C20: the domain the handler extracts is the value under tree.auth when
\* auth is a mapping holding it, otherwise the value of the flat key
\* "auth[domain]" when the tree has that key, otherwise None: it is None
\* only when neither form holds the field, and the nested value is taken
\* when both forms hold one.
C20_AuthFieldEitherForm ==
    \A h \in Handlers :
        (Running(h) /\ IsDict(hs[h].data)) =>
            hs[h].domain = FieldOfEitherForm(hs[h].data, "domain")

\* the payload subtree of the request: data.get("data", {})
EventData(h) == DictGet(hs[h].data, "data", Dict(<<>>))

\* the handler has run the id extraction on the payload
IdExtracted(h) == Running(h) /\ CallCount(h, "extract_id") = 1

\* the value under the first of the keys a mapping holds, as text; Absent
\* when it holds none of them
FirstKeyOf(tree, keys) ==
    IF \E i \in 1..Len(keys) : Has(tree, keys[i])
    THEN Str(PyStr(Get(tree, keys[CHOOSE i \in 1..Len(keys) :
                                    /\ Has(tree, keys[i])
                                    /\ \A j \in 1..(i - 1) : ~Has(tree, keys[j])])))
    ELSE Absent

RECURSIVE IdByPriority(_)
RECURSIVE IdOfChildren(_, _)
\* the id by the order of priority: ID, then ID], then ID and ID] of a
\* FIELDS child, then the children that are mappings, one after the other
\* in stored order, each looked at before what is below it
IdByPriority(tree) ==
    IF ~IsDict(tree) THEN Absent
    ELSE IF FirstKeyOf(tree, <<"ID", "ID]">>) # Absent
    THEN FirstKeyOf(tree, <<"ID", "ID]">>)
    ELSE IF /\ Has(tree, "FIELDS") /\ IsDict(Get(tree, "FIELDS"))
            /\ FirstKeyOf(Get(tree, "FIELDS"), <<"ID", "ID]">>) # Absent
    THEN FirstKeyOf(Get(tree, "FIELDS"), <<"ID", "ID]">>)
    ELSE IdOfChildren(tree.d, 1)

IdOfChildren(items, i) ==
    IF i > Len(items) THEN Absent
    ELSE IF IdByPriority(items[i][2]) # Absent THEN IdByPriority(items[i][2])
    ELSE IdOfChildren(items, i + 1)

\* C21: the id extracted from the payload is the one the order of priority
\* gives: a direct ID before a direct ID], these before ID / ID] of a FIELDS
\* child, these before the scan of the mapping children in stored order and
\* depth first; None when the order gives none.
C21_IdPriority ==
    \A h \in Handlers :
        IdExtracted(h) =>
            hs[h].event_id = IF IdByPriority(EventData(h)) = Absent THEN None
                             ELSE IdByPriority(EventData(h))

\* some mapping of the tree, at any depth, has an ID or ID] key
RECURSIVE HasIdKey(_)
HasIdKey(tree) ==
    /\ IsDict(tree)
    /\ \/ Has(tree, "ID") \/ Has(tree, "ID]")
       \/ \E i \in 1..Len(tree.d) : HasIdKey(tree.d[i][2])

\* C22: the id extraction ends without raising on every payload, a mapping
\* or not, and gives None only when no mapping of the payload tree has an
\* ID or ID] key, whatever value that key holds.
C22_IdTotal ==
    \A h \in Handlers :
        IdExtracted(h) =>
            /\ hs[h].event_id.t \in {"null", "str"}
            /\ hs[h].event_id = None => ~HasIdKey(EventData(h))

\* handler h commits in this step
Commits(h) == hs[h].pc # "done" /\ hs'[h].pc = "done" /\ hs'[h].outcome = "mutated"

\* the record as handling the event of h from the start on the store as it is
\* now leaves it: status and semantic status from the fetched entity, the
\* display name from the user fetch
HandledAlone(h) ==
    [ApplyStatus(leads[hs'[h].wf][hs'[h].lead_id], hs'[h].kind, hs'[h].lead_data)
        EXCEPT !.assigned_by_name = hs'[h].assigned_by_name]

\* C23: the last commit wins. Every commit leaves the record, and its child
\* field rows, as handling that event alone on the store the commit before
\* it left would leave them, so that after two events for one record that
\* were handled at the same time the record is what handling them one after
\* the other in the order of their commits gives.
C23_LastCommitWins ==
    [][\A h \in Handlers :
          Commits(h) =>
              /\ leads'[hs'[h].wf][hs'[h].lead_id] = HandledAlone(h)
              /\ lead_fields'[hs'[h].wf] =
                     ApplyMappings(lead_fields[hs'[h].wf],
                                   FieldMappings(mappings, hs'[h].wf, hs'[h].kind), 1,
                                   leads[hs'[h].wf][hs'[h].lead_id].id, hs'[h].lead_data)]_vars

\* the terminal states of the handling: handled-mutated and the handled-no-op
\* ones
HandledOutcomes ==
    {"mutated", "unknown_event", "missing_id", "fetch_failed", "lead_not_found",
     "no_status", "aborted"}

\* C24: once the body of a request is decoded and the request is
\* authenticated, its handling reaches handled-mutated or handled-no-op, and
\* a handling that ended is followed by its response, given that every
\* outbound call returns or fails.
C24_ReachesTerminal ==
    /\ (hs[1].authed /\ Running(1)) ~> (hs[1].pc = "done" /\ hs[1].outcome \in HandledOutcomes)
    /\ (hs[1].authed /\ hs[1].pc = "done") ~> ~Running(1)

\* an authenticated lead or deal event that ended, whose entity fetch
\* answered and whose id is the remote id of a local record
FetchedForRecord(h) ==
    /\ hs[h].pc = "done" /\ hs[h].authed /\ hs[h].kind \in {"lead", "deal"}
    /\ IsDict(hs[h].lead_data)
    /\ ~NoIdExtracted(h) /\ ~NoLocalRecord(h)

\* the event committed the display name and every applicable mapped field
AppliedAndCommitted(h) ==
    /\ hs[h].outcome = "mutated"
    /\ CallCount(h, "commit") = 1
    /\ Record(h).assigned_by_name = NameToLeave(h)
    /\ MappedFieldsStored(h)

\* C25 as stated: an authenticated lead or deal event whose id is extracted,
\* whose entity fetch answers and whose local record exists ends
\* handled-mutated, the display name and every applicable mapped field
\* committed, also when the entity has no or an empty STATUS_ID / STAGE_ID
\* (no storage operation raising).
C25_OnlyThreeNoOps ==
    \A h \in Handlers :
        (FetchedForRecord(h) /\ hs[h].raised = "") => AppliedAndCommitted(h)

\* C25, amended: such an event ends handled-mutated, the display name and
\* every applicable mapped field committed, when the entity has a non-empty
\* STATUS_ID / STAGE_ID and no storage operation raises; when the entity has
\* no or an empty STATUS_ID / STAGE_ID it ends as a no-op before the store
\* is opened, and when a storage operation raises it ends as a no-op, both
\* answered 200 with the tables unchanged.
C25_NoOpOutcomes ==
    \A h \in Handlers :
        FetchedForRecord(h) =>
            /\ (Truthy(RemoteStatus(h)) /\ hs[h].raised = "") => AppliedAndCommitted(h)
            /\ ~Truthy(RemoteStatus(h)) =>
                  /\ hs[h].outcome = "no_status" /\ hs[h].resp = 200
                  /\ CallCount(h, "open_store") = 0 /\ CallCount(h, "fetch_user") = 0
                  /\ StoreUnchanged(h)
            /\ hs[h].raised # "" =>
                  /\ hs[h].outcome = "aborted" /\ hs[h].resp = 200
                  /\ StoreUnchanged(h)

C25_Witness ==
    \E h \in Handlers :
        /\ FetchedForRecord(h) /\ hs[h].wf = 1 /\ hs[h].kind = "lead"
        /\ RemoteStatus(h) = Str("") /\ RemoteSemantic(h) = Str("S")
        /\ Applicable(h) # {}
        /\ hs[h].outcome = "no_status" /\ StoreUnchanged(h)

\* the steps of one event in the order they are to occur
StepOrder ==
    <<"tenant_lookup", "extract_id", "fetch_entity", "open_store", "record_lookup",
      "fetch_user", "mapping_lookup", "upsert", "commit">>

\* the place of each step in that order
Rank ==
    [name \in {StepOrder[k] : k \in 1..Len(StepOrder)} |->
        CHOOSE k \in 1..Len(StepOrder) : StepOrder[k] = name]

\* the event has made that step
Called(h, name) == \E i \in 1..Len(hs[h].calls) : hs[h].calls[i] = name

\* C26: the steps of an event occur in the fixed order tenant resolution
\* (with the token check), id extraction, entity fetch, record lookup, user
\* fetch, mapped-field upserts, commit, each at most once; no outbound call
\* and no id extraction precedes authentication, the user fetch is issued
\* only after the entity fetch answered and the record was found, and the
\* tables are unchanged until the commit, which follows the entity fetch.
C26_StepOrder ==
    \A h \in Handlers :
        Running(h) =>
            /\ \A i \in 1..Len(hs[h].calls) : hs[h].calls[i] \in DOMAIN Rank
            /\ \A i \in 1..(Len(hs[h].calls) - 1) :
                  Rank[hs[h].calls[i]] < Rank[hs[h].calls[i + 1]]
            /\ (Called(h, "extract_id") \/ Called(h, "fetch_entity")
                   \/ Called(h, "fetch_user")) =>
                  (hs[h].authed /\ Called(h, "tenant_lookup"))
            /\ Called(h, "fetch_entity") => Called(h, "extract_id")
            /\ Called(h, "record_lookup") =>
                  (Called(h, "fetch_entity") /\ IsDict(hs[h].lead_data))
            /\ Called(h, "fetch_user") =>
                  /\ IsDict(hs[h].lead_data)
                  /\ Called(h, "record_lookup") /\ hs[h].lead_id # 0
            /\ Called(h, "upsert") => Called(h, "record_lookup")
            /\ Called(h, "commit") => Called(h, "upsert")
            /\ ~Called(h, "commit") => StoreUnchanged(h)

C26_Witness ==
    \E h \in Handlers :
        /\ hs[h].pc = "done" /\ hs[h].outcome = "mutated"
        /\ hs[h].calls = StepOrder
        /\ ~StoreUnchanged(h)

\* C27: in every reachable state each lead_fields table holds at most one
\* row per (record, field name), also after two events for one record, each
\* with a value for a mapped field that had no row, were handled at the same
\* time and both committed.
C27_OneChildRow ==
    \A w \in WorkflowIds : \A i, j \in 1..Len(lead_fields[w]) :
        ( /\ lead_fields[w][i].lead_id = lead_fields[w][j].lead_id
          /\ lead_fields[w][i].field_name = lead_fields[w][j].field_name ) => i = j

C27_Witness ==
    /\ \A h \in Handlers :
          /\ hs[h].pc = "done" /\ hs[h].outcome = "mutated"
          /\ hs[h].wf = 1 /\ hs[h].kind = "deal" /\ hs[h].lead_id = 1
          /\ FieldPresent(DictGet(hs[h].lead_data, "UF_2", None))
          /\ FieldRows(hs[h].fields0[1], 1, "f3") = {}
    /\ Cardinality(FieldRows(lead_fields[1], 1, "f3")) = 1

\* the row w, i of lead_fields after the step belongs to the record of
\* workflow l.wf whose remote id is the id of the event
OwnChildRow(l, w, i) ==
    /\ w = l.wf
    /\ \E k \in 1..Len(leads[w]) :
          /\ leads[w][k].bitrix24_lead_id = PyStr(l.bid)
          /\ lead_fields'[w][i].lead_id = leads[w][k].id

\* C28: a step of the handling of an event for remote id X of a workflow
\* changes no workflow and no field mapping, no leads row of another
\* workflow or with another remote id, and no lead_fields row of another
\* workflow or of another record; it removes no row, and the rows it adds
\* are child rows of that record.
C28_Frame ==
    [][\A h \in Handlers :
          hs'[h] # hs[h] =>
              /\ workflows' = workflows /\ mappings' = mappings
              /\ \A w \in WorkflowIds :
                    /\ Len(leads'[w]) = Len(leads[w])
                    /\ \A i \in 1..Len(leads[w]) :
                          (w # hs'[h].wf \/ leads[w][i].bitrix24_lead_id # PyStr(hs'[h].bid))
                              => leads'[w][i] = leads[w][i]
                    /\ Len(lead_fields'[w]) >= Len(lead_fields[w])
                    /\ \A i \in 1..Len(lead_fields'[w]) :
                          (i > Len(lead_fields[w]) \/ lead_fields'[w][i] # lead_fields[w][i])
                              => OwnChildRow(hs'[h], w, i)]_vars

C28_Witness ==
    \E h \in Handlers :
        /\ hs[h].pc = "done" /\ hs[h].outcome = "mutated"
        /\ hs[h].wf = 1 /\ hs[h].bid = Str("5")
        /\ leads[1][1] # InitLeads[1][1]
        /\ leads[1][2] = InitLeads[1][2] /\ leads[2] = InitLeads[2]
        /\ Len(lead_fields[1]) = 2 /\ lead_fields[1][2].lead_id = 1
        /\ lead_fields[2] = <<>>

\* every entry of tree a is in tree b with its value
RECURSIVE Within(_, _)
Within(a, b) ==
    IF IsDict(a)
    THEN /\ IsDict(b)
         /\ \A i \in 1..Len(a.d) :
               Has(b, a.d[i][1]) /\ Within(a.d[i][2], Get(b, a.d[i][1]))
    ELSE a = b

\* C29: decoding a pair with a bracketed key outer[inner]... replaces no
\* mapping that is at outer already: when the paths of the pairs differ and
\* none leads to another, every entry the pairs before it stored under
\* outer is there afterwards with its value; after auth[domain] and then
\* auth[application_token] both fields are under auth.
C29_KeepsEarlierEntries ==
    \A h \in Handlers :
        (Running(h) /\ Len(hs[h].form) > 1 /\ NonColliding(hs[h].form)) =>
            \A j \in 2..Len(hs[h].form) :
                LET path == ClaimedPath(hs[h].form[j][1])
                    before == Decode(SubSeq(hs[h].form, 1, j - 1))
                    after == Decode(SubSeq(hs[h].form, 1, j))
                IN  (Len(path) > 1 /\ before # TypeError /\ Has(before, path[1])) =>
                        /\ after # TypeError
                        /\ Within(Get(before, path[1]), Get(after, path[1]))

\* C30: the entity id the handler uses is the value sent in the ID field:
\* from a form body whose only data pair is data[FIELDS][ID]=v, data[ID]=v,
\* or a defective key that ends in a bare ID] (ID]=v, data[FIELDS]ID]=v), the
\* id extraction over the data subtree and then the derived fields subtree
\* gives v.
C30_IdEndToEnd ==
    \A h \in Handlers : \A key \in IdKeyShapes : \A v \in {"5", "6"} :
        (Running(h) /\ hs[h].form = IdForm(key, v)) =>
            /\ IdExtracted(h)
            /\ hs[h].bid = Str(v)

\* the last two runs were of the same migration function
RanTwice(fn) ==
    /\ Len(runs) >= 2
    /\ runs[Len(runs)].fn = fn
    /\ runs[Len(runs) - 1].fn = fn

\* the one run so far was of migrate_workflow_field_mapping, on a main
\* database without the workflow_field_mappings table
CreatedMappings ==
    /\ Len(runs) = 1
    /\ runs[1].fn = "migrate_workflow_field_mapping"
    /\ schema0.file /\ ~schema0.workflow_field_mappings.exists

\* C31: the second of two runs in a row of a migration function leaves the
\* tables and columns the first left, from every starting schema; and one
\* run of migrate_workflow_field_mapping on a database without the
\* workflow_field_mappings table leaves the table with the update_on_event
\* column.
C31_MigrationsIdempotent ==
    /\ \A fn \in Migrations : RanTwice(fn) => schema = schema0
    /\ CreatedMappings =>
          "update_on_event" \in TableInfo(schema.workflow_field_mappings)

\* a session cookie was sent and holds a session id
CookiePresent == dep.session_id \notin {None, Str("")}

\* the session store answered with the data of a session
SessionLive == dep.session_data \notin {None, Dict(<< >>)}

\* the users table has a row for the session's user
SessionUserExists ==
    /\ SessionLive
    /\ \E u \in UserIds : dep.session_data = SessionData(u) /\ dep.users[u] # "-"

SessionUserIsAdmin ==
    /\ SessionLive
    /\ \E u \in UserIds : dep.session_data = SessionData(u) /\ dep.users[u] = "admin"

Authenticated == CookiePresent /\ SessionLive /\ SessionUserExists

\* C32: when the dependencies of an admin endpoint are resolved,
\* get_admin_user has yielded a user exactly when the cookie is present, the
\* session is live, its user exists and that user's role is admin; the
\* request failed with 401 exactly when one of the first three does not
\* hold, whatever the role, and with 403 exactly when the three hold and the
\* role is not admin.
C32_AdminGate ==
    dep.pc = "done" =>
        /\ dep.status \in {0, 401, 403}
        /\ dep.admin_user # NoUser <=> dep.status = 0
        /\ dep.status = 0 <=> Authenticated /\ SessionUserIsAdmin
        /\ dep.status = 0 =>
              /\ dep.session_data = SessionData(dep.admin_user.id)
              /\ dep.admin_user.role = "admin"
        /\ dep.status = 401 <=> ~Authenticated
        /\ dep.status = 403 <=> Authenticated /\ ~SessionUserIsAdmin

\* a request without a cookie, whose session store would answer with a user
\* who is no admin, was answered 401
C32_Witness ==
    /\ dep.pc = "done"
    /\ dep.status = 401
    /\ ~CookiePresent
    /\ SessionUserExists /\ ~SessionUserIsAdmin

====
